---- MODULE Spec2Model ----
(***************************************************************************)
(* A model of map_data_to_midi (src/history-to-midi.py, lines 119-195):    *)
(* the pass that turns a list of (timestamp, url, visit_count) tuples into *)
(* note events spread over four MIDI tracks.                               *)
(*                                                                         *)
(* Rational quantities are kept exact.  A duration is counted in           *)
(* twentieths of a beat (0.25 beats = 5, 4.0 beats = 80, and               *)
(* time_delta / 2.5 beats = 8 * time_delta), the velocity expression       *)
(* 80 + (visit_count / max_visit_count) * 20 is kept as a fraction until   *)
(* int() truncates it.                                                     *)
(***************************************************************************)
EXTENDS Integers, Sequences, FiniteSets

VARIABLES
    history_data,     \* the argument: a sequence of <<timestamp, url, visit_count>>
    bpm,              \* the argument bpm
    str_hash,         \* this process's str hash (randomised per process), by domain
    pc,               \* position in map_data_to_midi
    midi_file,        \* the MIDIFile under construction
    last_time,        \* local last_time
    max_visit_count,  \* local max_visit_count
    idx,              \* number of records the for loop has consumed
    calls             \* per consumed record: the locals of its iteration

vars == <<history_data, bpm, str_hash, pc, midi_file, last_time,
          max_visit_count, idx, calls>>

----------------------------------------------------------------------------
(* Configuration, lines 14-17, and num_voices, line 130.                   *)

NOTE_MAPPING_RANGE == <<48, 84>>
DEFAULT_BPM == 120
VELOCITY_BASE == 80
VELOCITY_MODULATION == 20
num_voices == 4

(* Durations are counted in 1/TicksPerBeat beats: the literals 0.25, 4.0   *)
(* and 2.5 of line 176 become 5, 80 and a factor 8.                        *)
TicksPerBeat == 20

----------------------------------------------------------------------------
(* Bounds of the model.                                                    *)

MaxLen == 3        \* longest history of the sequence inputs
MaxTick == 2       \* timestamps 1000, 1005, ... 1000 + 5 * MaxTick
MaxVisit == 6      \* visit counts -MaxVisit .. MaxVisit of the velocity inputs
MaxHash == 21      \* hash values -MaxHash .. MaxHash of the pitch inputs
MaxPathLen == 13   \* path lengths 0 .. MaxPathLen of the pitch inputs

----------------------------------------------------------------------------
(* Python builtins used by the function.                                   *)

abs(n) == IF n < 0 THEN -n ELSE n

min(a, b) == IF a <= b THEN a ELSE b

max(a, b) == IF a >= b THEN a ELSE b

(* max(item[2] for item in data): a left fold over a non-empty sequence.   *)
RECURSIVE max_item2(_)
max_item2(data) ==
    IF Len(data) = 1 THEN data[1][3]
    ELSE max(max_item2(SubSeq(data, 1, Len(data) - 1)), data[Len(data)][3])

(* int(num / den): truncation toward zero, den # 0.                        *)
int_round_half_up(num, den) ==
    LET n == IF den < 0 THEN -num ELSE num
        d == abs(den)
    IN  (2 * n + d) \div (2 * d)

int(num, den) ==
    LET n == IF den < 0 THEN -num ELSE num
        d == abs(den)
    IN  IF n >= 0 THEN n \div d ELSE -((-n) \div d)

(* hash(domain): a function of the string within one process.             *)
hash(domain) == str_hash[domain]

----------------------------------------------------------------------------
(* urllib.parse.urlparse, as far as lines 149-153 use it: it raises        *)
(* ValueError on a netloc with an unmatched bracket and otherwise yields   *)
(* the netloc and the path.  A url is kept as its netloc and its path (a   *)
(* sequence of characters).                                                *)

InvalidNetlocs == {"[bad"}

urlparse_raises(url) == url.netloc \in InvalidNetlocs

urlparse(url) == [netloc |-> url.netloc, path |-> url.path]

----------------------------------------------------------------------------
(* The musical mapping, lines 155-181.                                     *)

(* Line 158: voice_index = hash(domain) % num_voices (Python's %, whose    *)
(* result has the sign of the divisor).                                    *)
voice_index_c_remainder(domain) ==
    IF hash(domain) >= 0 THEN hash(domain) % num_voices
    ELSE -(abs(hash(domain)) % num_voices)

voice_index(domain) == hash(domain) % num_voices

(* Line 162.                                                               *)
note_range_size == NOTE_MAPPING_RANGE[2] - NOTE_MAPPING_RANGE[1]

(* Line 163.                                                               *)
base_note_full_range(domain) ==
    NOTE_MAPPING_RANGE[1] + (abs(hash(domain)) % note_range_size)

base_note(domain) ==
    NOTE_MAPPING_RANGE[1] + (abs(hash(domain)) % (note_range_size \div 2))

(* Line 164.                                                               *)
path_shift(path) == Len(path) % 12

(* Lines 165-168.                                                          *)
pitch(domain, path) ==
    max(NOTE_MAPPING_RANGE[1],
        min(NOTE_MAPPING_RANGE[2], base_note(domain) + path_shift(path)))

(* Line 172: time since the first event of the input.                      *)
start_time_since_last(timestamp) == timestamp - last_time

start_time(timestamp) == timestamp - history_data[1][1]

(* Line 176: max(0.25, min(4.0, time_delta / 2.5)), in 1/TicksPerBeat.     *)
duration_no_floor(time_delta) ==
    min(4 * TicksPerBeat, (2 * TicksPerBeat * time_delta) \div 5)

duration(time_delta) ==
    max(TicksPerBeat \div 4,
        min(4 * TicksPerBeat, (2 * TicksPerBeat * time_delta) \div 5))

(* Lines 179-181.  normalized_visits is visit_count / max_visit_count, so  *)
(* VELOCITY_BASE + normalized_visits * VELOCITY_MODULATION is the fraction *)
(* (VELOCITY_BASE * mvc + visit_count * VELOCITY_MODULATION) / mvc.        *)
velocity_unclamped(visit_count, mvc) ==
    int(VELOCITY_BASE * mvc + visit_count * VELOCITY_MODULATION, mvc)

velocity(visit_count, mvc) ==
    max(0, min(127,
        int(VELOCITY_BASE * mvc + visit_count * VELOCITY_MODULATION, mvc)))

----------------------------------------------------------------------------
(* midiutil's MIDIFile, as far as the function uses it: per track the      *)
(* names, the tempos and the notes added, in the order of the calls.       *)
(* removeDuplicates=True acts when the file is written, not in addNote.    *)

Tracks == 0 .. (num_voices - 1)

MIDIFile(n) ==
    [names  |-> [t \in 0 .. (n - 1) |-> <<>>],
     tempos |-> [t \in 0 .. (n - 1) |-> <<>>],
     notes  |-> [t \in 0 .. (n - 1) |-> <<>>]]

VoiceName(i) ==
    CASE i = 0 -> "Voice 1" [] i = 1 -> "Voice 2"
      [] i = 2 -> "Voice 3" [] OTHER -> "Voice 4"

addTrackName(mf, track, time, name) ==
    [mf EXCEPT !.names[track] = Append(@, [time |-> time, name |-> name])]

addTempo(mf, track, time, tempo) ==
    [mf EXCEPT !.tempos[track] = Append(@, [time |-> time, tempo |-> tempo])]

Note(channel, p, time, d, volume) ==
    [channel |-> channel, pitch |-> p, time |-> time, duration |-> d,
     volume |-> volume]

addNote_dedup(mf, track, channel, p, time, d, volume) ==
    IF \E k \in 1 .. Len(mf.notes[track]) :
           mf.notes[track][k] = Note(channel, p, time, d, volume)
    THEN mf
    ELSE [mf EXCEPT !.notes[track] = Append(@, Note(channel, p, time, d, volume))]

addNote(mf, track, channel, p, time, d, volume) ==
    [mf EXCEPT !.notes[track] = Append(@, Note(channel, p, time, d, volume))]

(* Lines 133-135: the loop over the voices, from track i on.               *)
RECURSIVE setup_tracks(_, _, _)
setup_tracks(mf, i, tempo) ==
    IF i >= num_voices THEN mf
    ELSE setup_tracks(addTempo(addTrackName(mf, i, 0, VoiceName(i)), i, 0, tempo),
                      i + 1, tempo)

(* Line 137: not history_data.                                             *)
never_empty(data) == FALSE

is_empty(data) == Len(data) = 0

----------------------------------------------------------------------------
(* Inputs.                                                                 *)

Timestamps == {1000 + 5 * k : k \in 0 .. MaxTick}

Path(n) == [i \in 1 .. n |-> IF i = 1 THEN "/" ELSE "x"]

Url(netloc, n) == [netloc |-> netloc, path |-> Path(n)]

Domains == {"", "a.com", "b.com"}

(* hash("") is 0 in every process; the other values vary with the process. *)
HashTable(ha, hb) ==
    [d \in Domains |-> IF d = "" THEN 0 ELSE IF d = "a.com" THEN ha ELSE hb]

(* Histories as the query's join yields them: a url row carries one        *)
(* visit_count, each visit a timestamp.                                    *)
SeqRows ==
    { <<Url("[bad", 1), 2>>, <<Url("a.com", 2), 5>>,
      <<Url("a.com", 3), 5>>, <<Url("b.com", 1), 1>> }

SeqRecords == { <<t, r[1], r[2]>> : t \in Timestamps, r \in SeqRows }

SeqInputs == UNION { [1 .. n -> SeqRecords] : n \in 0 .. MaxLen }

SeqHashes == { HashTable(MaxHash, 1 - MaxHash), HashTable(-MaxHash, -MaxHash) }

(* Two visits whose visit counts range over positive, zero and negative.   *)
VelocityInputs ==
    { << <<1000, Url("a.com", 2), v1>>, <<1005, Url("a.com", 3), v2>> >> :
        v1 \in (-MaxVisit) .. MaxVisit, v2 \in (-MaxVisit) .. MaxVisit }

(* One visit whose path length and domain hash range widely.               *)
PitchInputs ==
    { << <<1000, Url(d, n), 1>> >> : d \in {"", "a.com"}, n \in 0 .. MaxPathLen }

PitchHashes == { HashTable(h, 1 - MaxHash) : h \in (-MaxHash) .. MaxHash }

----------------------------------------------------------------------------
(* The state machine.                                                      *)

(* On entry the locals last_time and max_visit_count are not yet bound     *)
(* (0 stands for that; Prepare assigns both before any use).               *)
Init ==
    /\ \/ history_data \in SeqInputs /\ str_hash \in SeqHashes
       \/ history_data \in VelocityInputs
            /\ str_hash = HashTable(MaxHash, 1 - MaxHash)
       \/ history_data \in PitchInputs /\ str_hash \in PitchHashes
    /\ bpm = DEFAULT_BPM
    /\ pc = "start"
    /\ midi_file = MIDIFile(num_voices)
    /\ last_time = 0
    /\ max_visit_count = 0
    /\ idx = 0
    /\ calls = <<>>

(* Lines 130-135.                                                          *)
SetupTracks ==
    /\ pc = "start"
    /\ midi_file' = setup_tracks(MIDIFile(num_voices), 0, bpm)
    /\ pc' = "check"
    /\ UNCHANGED <<history_data, bpm, str_hash, last_time, max_visit_count,
                   idx, calls>>

(* Lines 137-139.                                                          *)
ReturnEmpty ==
    /\ pc = "check"
    /\ is_empty(history_data)
    /\ pc' = "done"
    /\ UNCHANGED <<history_data, bpm, str_hash, midi_file, last_time,
                   max_visit_count, idx, calls>>

(* Lines 141-145.  history_data[0] raises IndexError on an empty list.     *)
Prepare ==
    /\ pc = "check"
    /\ ~is_empty(history_data)
    /\ IF Len(history_data) = 0
       THEN /\ pc' = "raised"
            /\ UNCHANGED <<last_time, max_visit_count>>
       ELSE /\ last_time' = history_data[1][1]
            /\ max_visit_count' =
                 LET m == IF ~is_empty(history_data)
                          THEN max_item2(history_data) ELSE 1
                 IN  IF m = 0 THEN 1 ELSE m
            /\ pc' = "loop"
    /\ UNCHANGED <<history_data, bpm, str_hash, midi_file, idx, calls>>

Skipped ==
    [skipped |-> TRUE, voice_index |-> 0, base_note |-> 0, path_shift |-> 0,
     pitch |-> 0, time_delta |-> 0, start_time |-> 0, duration |-> 0,
     velocity |-> 0]

(* Lines 147-153, urlparse raising: continue.                              *)
LoopSkip_advances_cursor ==
    /\ pc = "loop"
    /\ idx < Len(history_data)
    /\ urlparse_raises(history_data[idx + 1][2])
    /\ idx' = idx + 1
    /\ calls' = Append(calls, Skipped)
    /\ last_time' = history_data[idx + 1][1]
    /\ UNCHANGED <<history_data, bpm, str_hash, pc, midi_file, max_visit_count>>

LoopSkip ==
    /\ pc = "loop"
    /\ idx < Len(history_data)
    /\ urlparse_raises(history_data[idx + 1][2])
    /\ idx' = idx + 1
    /\ calls' = Append(calls, Skipped)
    /\ UNCHANGED <<history_data, bpm, str_hash, pc, midi_file, last_time,
                   max_visit_count>>

(* Lines 147-193, urlparse returning.  Line 179 raises ZeroDivisionError   *)
(* when max_visit_count is 0.                                              *)
LoopNote ==
    /\ pc = "loop"
    /\ idx < Len(history_data)
    /\ ~urlparse_raises(history_data[idx + 1][2])
    /\ LET timestamp   == history_data[idx + 1][1]
           url         == history_data[idx + 1][2]
           visit_count == history_data[idx + 1][3]
           domain      == urlparse(url).netloc
           path        == urlparse(url).path
           time_delta  == timestamp - last_time
       IN  IF max_visit_count = 0
           THEN /\ pc' = "raised"
                /\ UNCHANGED <<midi_file, last_time, idx, calls>>
           ELSE /\ midi_file' =
                     addNote(midi_file, voice_index(domain), 0,
                             pitch(domain, path), start_time(timestamp),
                             duration(time_delta),
                             velocity(visit_count, max_visit_count))
                /\ calls' = Append(calls,
                     [skipped     |-> FALSE,
                      voice_index |-> voice_index(domain),
                      base_note   |-> base_note(domain),
                      path_shift  |-> path_shift(path),
                      pitch       |-> pitch(domain, path),
                      time_delta  |-> time_delta,
                      start_time  |-> start_time(timestamp),
                      duration    |-> duration(time_delta),
                      velocity    |-> velocity(visit_count, max_visit_count)])
                /\ last_time' = timestamp
                /\ idx' = idx + 1
                /\ pc' = "loop"
    /\ UNCHANGED <<history_data, bpm, str_hash, max_visit_count>>

(* Line 195.                                                               *)
Return ==
    /\ pc = "loop"
    /\ idx = Len(history_data)
    /\ pc' = "done"
    /\ UNCHANGED <<history_data, bpm, str_hash, midi_file, last_time,
                   max_visit_count, idx, calls>>

Next ==
    \/ SetupTracks
    \/ ReturnEmpty
    \/ Prepare
    \/ LoopSkip
    \/ LoopNote
    \/ Return

Spec == Init /\ [][Next]_vars

----------------------------------------------------------------------------
(* Vocabulary of the properties.                                           *)

Consumed == 1 .. idx

Valid(k) == ~urlparse_raises(history_data[k][2])

TimestampOf(k) == history_data[k][1]

DomainOf(k) == urlparse(history_data[k][2]).netloc

VisitsOf(k) == history_data[k][3]

HashVoice(k) == hash(DomainOf(k)) % 4

(* The start times voice v must hold after n records, in input order.      *)
RECURSIVE ExpectedTimes(_, _)
ExpectedTimes(v, n) ==
    IF n = 0 THEN <<>>
    ELSE IF Valid(n) /\ HashVoice(n) = v
         THEN Append(ExpectedTimes(v, n - 1), TimestampOf(n) - TimestampOf(1))
         ELSE ExpectedTimes(v, n - 1)

NoteTimes(v) == [i \in 1 .. Len(midi_file.notes[v]) |-> midi_file.notes[v][i].time]

RECURSIVE SumLen(_)
SumLen(n) == IF n = 0 THEN 0 ELSE SumLen(n - 1) + Len(midi_file.notes[n - 1])

(* The note record k put into the file: the latest note of its track when  *)
(* k was consumed.                                                         *)
EmittedNote(k) ==
    LET v == calls[k].voice_index
        n == Cardinality({j \in 1 .. k : ~calls[j].skipped /\ calls[j].voice_index = v})
    IN  midi_file.notes[v][n]

AllNotes == UNION { {midi_file.notes[v][i] : i \in 1 .. Len(midi_file.notes[v])} : v \in Tracks }

(* The nearest valid record before k.                                      *)
HasEarlierValid(k) == \E j \in 1 .. (k - 1) : Valid(j)

PrevValid(k) ==
    CHOOSE j \in 1 .. (k - 1) : Valid(j) /\ \A m \in (j + 1) .. (k - 1) : ~Valid(m)

Sorted == \A k \in 1 .. (Len(history_data) - 1) : TimestampOf(k) <= TimestampOf(k + 1)

(* floor(num / den) and the nearest integer to num / den, den # 0.         *)
Floor(num, den) == IF den < 0 THEN (-num) \div (-den) ELSE num \div den

Nearest(num, den) == Floor(2 * num + den, 2 * den)

Clamp(x, lo, hi) == IF x < lo THEN lo ELSE IF x > hi THEN hi ELSE x

(* max_visit_count as stated: the maximum over all records, 1 for 0.       *)
StatedMax ==
    LET S == {VisitsOf(k) : k \in 1 .. Len(history_data)}
        m == CHOOSE x \in S : \A y \in S : y <= x
    IN  IF m = 0 THEN 1 ELSE m

----------------------------------------------------------------------------
(* C1: no error is raised, and after any number of consumed records each   *)
(* voice holds exactly the notes of the valid records hashed to it, in     *)
(* input order, so the four voices together hold one note per valid        *)
(* record and none for a record whose url parse raised; a finished pass    *)
(* over a non-empty input has consumed every record.                       *)
C1_OneNotePerValidRecord ==
    /\ pc # "raised"
    /\ Len(calls) = idx
    /\ \A v \in Tracks : NoteTimes(v) = ExpectedTimes(v, idx)
    /\ SumLen(num_voices) = Cardinality({k \in Consumed : Valid(k)})
    /\ \A k \in Consumed : calls[k].skipped <=> ~Valid(k)
    /\ (pc = "done" => idx = Len(history_data))

C1_Witness ==
    /\ pc = "done"
    /\ \E j, k \in Consumed : j < k /\ Valid(j) /\ history_data[j] = history_data[k]
    /\ \E m \in Consumed : ~Valid(m)

(* C2: a valid record that has an earlier valid record gets as time_delta  *)
(* its timestamp minus that of the nearest preceding valid record, the     *)
(* malformed records between them leaving the cursor alone.                *)
C2_DeltaAgainstLastValid ==
    \A k \in Consumed :
        (Valid(k) /\ HasEarlierValid(k)) =>
            calls[k].time_delta = TimestampOf(k) - TimestampOf(PrevValid(k))

C2_Witness ==
    /\ pc = "done"
    /\ \E k \in Consumed :
          /\ k >= 3
          /\ Valid(k) /\ ~Valid(k - 1) /\ Valid(k - 2)
          /\ TimestampOf(k - 1) # TimestampOf(k - 2)
          /\ TimestampOf(k - 1) # TimestampOf(k)

(* C3: the first valid record of the input is processed with time_delta 0  *)
(* and gets the duration 0.25 beats, whatever malformed records precede    *)
(* it.                                                                     *)
C3_FirstValidHasZeroDelta ==
    \A k \in Consumed :
        (Valid(k) /\ ~HasEarlierValid(k)) =>
            /\ calls[k].time_delta = 0
            /\ calls[k].duration = TicksPerBeat \div 4

(* C4 as stated: the velocity of a valid record is                         *)
(* clamp(round(80 + visit_count / max_visit_count * 20), 0, 127), the      *)
(* value rounded to the nearest integer.                                   *)
C4_VelocityRounded ==
    \A k \in Consumed :
        Valid(k) =>
            calls[k].velocity =
                Clamp(Nearest(80 * StatedMax + VisitsOf(k) * 20, StatedMax), 0, 127)

(* C4 amended: the velocity of a valid record, and the volume of its note, *)
(* is clamp(floor(80 + visit_count / max_visit_count * 20), 0, 127): the   *)
(* fraction is cut off, not rounded to the nearest integer.                *)
C4_VelocityTruncated ==
    \A k \in Consumed :
        Valid(k) =>
            LET want == Clamp(Floor(80 * StatedMax + VisitsOf(k) * 20, StatedMax), 0, 127)
            IN  calls[k].velocity = want /\ EmittedNote(k).volume = want

C4_Witness ==
    /\ pc = "done"
    /\ \E k \in Consumed :
          /\ Valid(k)
          /\ Floor(80 * StatedMax + VisitsOf(k) * 20, StatedMax)
               # Nearest(80 * StatedMax + VisitsOf(k) * 20, StatedMax)
          /\ calls[k].velocity \in 1 .. 126

C6_PitchAndVelocityInRange ==
    \A n \in AllNotes : n.pitch \in 48 .. 84 /\ n.volume \in 0 .. 127

C6_Witness ==
    /\ pc = "done"
    /\ \E k \in Consumed :
          /\ Valid(k)
          /\ VisitsOf(k) < 0
          /\ Floor(80 * StatedMax + VisitsOf(k) * 20, StatedMax) < 0
          /\ EmittedNote(k).volume = 0

(* C7: every note goes to a voice in 0..3, and two valid records with the  *)
(* same domain go to the same voice.                                       *)
C7_VoiceByDomain ==
    /\ \A k \in Consumed : Valid(k) => calls[k].voice_index \in 0 .. 3
    /\ \A j, k \in Consumed :
          (Valid(j) /\ Valid(k) /\ DomainOf(j) = DomainOf(k)) =>
              calls[j].voice_index = calls[k].voice_index

C7_Witness ==
    /\ pc = "done"
    /\ \E j, k \in Consumed :
          /\ j < k /\ Valid(j) /\ Valid(k)
          /\ DomainOf(j) = DomainOf(k) /\ hash(DomainOf(j)) < 0
          /\ history_data[j][2] # history_data[k][2]
          /\ TimestampOf(j) # TimestampOf(k)

(* C8: when the input timestamps are non-decreasing, start_time is         *)
(* non-negative and non-decreasing over the notes in input order, and so   *)
(* within each voice.                                                      *)
C8_StartTimeMonotone ==
    Sorted =>
        /\ \A k \in Consumed :
              Valid(k) =>
                  /\ calls[k].start_time = TimestampOf(k) - TimestampOf(1)
                  /\ calls[k].start_time >= 0
                  /\ EmittedNote(k).time = calls[k].start_time
        /\ \A j, k \in Consumed :
              (j < k /\ Valid(j) /\ Valid(k)) =>
                  calls[j].start_time <= calls[k].start_time
        /\ \A v \in Tracks : \A i \in 1 .. (Len(midi_file.notes[v]) - 1) :
              /\ midi_file.notes[v][i].time >= 0
              /\ midi_file.notes[v][i].time <= midi_file.notes[v][i + 1].time

C8_Witness ==
    /\ pc = "done"
    /\ Sorted
    /\ Len(history_data) >= 3
    /\ ~Valid(1)
    /\ \E j, k \in Consumed :
          /\ j < k /\ Valid(j) /\ Valid(k)
          /\ 0 < calls[j].start_time
          /\ calls[j].start_time < calls[k].start_time

(* C9: on an input with no valid record, the empty one included, no error  *)
(* is raised and the result holds, for each of the four voices, its track  *)
(* name and its tempo and no note.                                         *)
C9_NoValidRecordNoNotes ==
    (\A k \in 1 .. Len(history_data) : ~Valid(k)) =>
        /\ pc # "raised"
        /\ \A v \in Tracks : midi_file.notes[v] = <<>>
        /\ (pc = "done" =>
              /\ DOMAIN midi_file.notes = 0 .. 3
              /\ \A v \in Tracks :
                    /\ midi_file.names[v] = <<[time |-> 0, name |-> VoiceName(v)]>>
                    /\ midi_file.tempos[v] = <<[time |-> 0, tempo |-> bpm]>>)

C9_Witness == pc = "done" /\ history_data = <<>>

(* C10: the base note is in 48..65 and the path shift in 0..11, so their   *)
(* sum is in 48..76, the clamp leaves it as it is, and no note is above    *)
(* 76.                                                                     *)
C10_PitchAtMost76 ==
    /\ \A k \in Consumed :
          Valid(k) =>
              /\ calls[k].base_note \in 48 .. 65
              /\ calls[k].path_shift \in 0 .. 11
              /\ calls[k].pitch = calls[k].base_note + calls[k].path_shift
    /\ \A n \in AllNotes : n.pitch \in 48 .. 76

C10_Witness ==
    /\ pc = "done"
    /\ \E n \in AllNotes : n.pitch = 76

====
